---- MODULE Spec2Model ----
(***************************************************************************)
(* hannk interpreter model core (apps/hannk/interpreter/model.cpp):        *)
(* TensorStorage, Tensor, and the Model's ordered tensor and op lists.     *)
(*                                                                         *)
(* Objects live in heaps addressed by index: tensor[t] is a Tensor object  *)
(* and storage[t] the TensorStorage that tensor t's storage() created (a   *)
(* tensor creates at most one: storage_ never returns to null); 0 is the   *)
(* null storage pointer.  A storage no tensor points to any more has been  *)
(* destroyed by its shared_ptr.  A buffer's data pointer is the identity   *)
(* of the allocation it points into (nullptr for none) together with host, *)
(* the per-dimension offset of the buffer's origin from the allocation's   *)
(* first element.  A failed assert aborts the process: failed names the    *)
(* assertion and nothing runs afterwards.                                  *)
(***************************************************************************)
EXTENDS Integers, Sequences, FiniteSets, TLC

VARIABLES tensor, storage, failed, model, uses, call

vars == <<tensor, storage, failed, model, uses, call>>

(***************************************************************************)
(* Bounds of the model.                                                    *)
(***************************************************************************)
NumTensors == 3
MaxCoord == 1
MaxRank == 1
MaxUses == 3
MaxOps == 4
NumOpTensors == 2
MaxInputs == 2
MaxOutputs == 1
NumCloneTensors == 2
MaxClones == 1
MaxRunCalls == 3
NumGraphTensors == 3
MaxGraphOps == 2
MaxListed == 3

Types == {"u8", "i32"}
Coords == 0..MaxCoord

Min(a, b) == IF a <= b THEN a ELSE b
Max(a, b) == IF a >= b THEN a ELSE b

(***************************************************************************)
(* Box: a sequence of intervals [min, max], one per dimension.             *)
(***************************************************************************)
Intervals == {[min |-> a, max |-> b] : a \in Coords, b \in Coords}
NonEmptyIntervals == {iv \in Intervals : iv.min <= iv.max}

RECURSIVE BoxesOfRank(_, _)
BoxesOfRank(S, r) ==
    IF r = 0 THEN {<<>>}
    ELSE {Append(b, iv) : b \in BoxesOfRank(S, r - 1), iv \in S}

Boxes == UNION {BoxesOfRank(NonEmptyIntervals, r) : r \in 0..MaxRank}

extent(iv) == iv.max - iv.min + 1

(***************************************************************************)
(* The buffer interface the core consumes.                                 *)
(***************************************************************************)
dim_max(d) == d.min + d.extent - 1

nullptr == <<>>

\* Buffer(type, extents): a buffer of that shape with origin 0, no data.
Buffer(type, extents) ==
    [type |-> type,
     dim  |-> [i \in 1..Len(extents) |-> [min |-> 0, extent |-> extents[i]]],
     data |-> nullptr,
     host |-> [i \in 1..Len(extents) |-> 0]]

\* translate(d, dx): moves the origin of dimension d; the data stays put.
translate(b, d, dx) == [b EXCEPT !.dim[d].min = @ + dx]

\* crop(d, min, extent): restricts dimension d, advancing the host pointer.
crop(b, d, min, ext) ==
    [b EXCEPT !.host[d] = @ + (min - b.dim[d].min),
              !.dim[d]  = [min |-> min, extent |-> ext]]

\* make_with_shape_of(b): a fresh allocation, id, of b's type and shape.
make_with_shape_of(b, id) ==
    [b EXCEPT !.data = id, !.host = [i \in 1..Len(b.dim) |-> 0]]

RECURSIVE translate_all(_, _, _)
translate_all(b, bounds, i) ==
    IF i > Len(bounds) THEN b
    ELSE translate_all(translate(b, i, bounds[i].min), bounds, i + 1)

make_buffer(type, bounds) ==
    LET extents == [i \in 1..Len(bounds) |-> extent(bounds[i])]
    IN translate_all(Buffer(type, extents), bounds, 1)

\* The box a buffer covers (Tensor::box()).
box(b) == [i \in 1..Len(b.dim) |-> [min |-> b.dim[i].min, max |-> dim_max(b.dim[i])]]
rank(b) == Len(b.dim)

(***************************************************************************)
(* The heap as a value, so that a call can be composed of the calls it     *)
(* makes.  Every operation is the identity once an assertion has failed.   *)
(***************************************************************************)
Here == [tensor |-> tensor, storage |-> storage, failed |-> failed]

\* A destroyed (or not yet created) TensorStorage slot.
NoStorage == [live |-> FALSE, buffer |-> Buffer("none", <<>>), allocs |-> 0]

\* shared_ptr<TensorStorage>: a storage dies with its last owner.
Release(h) ==
    [h EXCEPT !.storage =
        [s \in DOMAIN h.storage |->
            IF \E t \in DOMAIN h.tensor : h.tensor[t].storage = s
            THEN h.storage[s] ELSE NoStorage]]

\* The state a call leaves.  An abort ends the process: no object survives.
Install(h) ==
    IF h.failed # "none"
    THEN /\ tensor' = <<>>
         /\ storage' = <<>>
         /\ failed' = h.failed
    ELSE LET g == Release(h) IN
         /\ tensor' = g.tensor
         /\ storage' = g.storage
         /\ failed' = "none"

Abort(h, label) == [h EXCEPT !.failed = label]

(***************************************************************************)
(* TensorStorage                                                           *)
(***************************************************************************)
\* TensorStorage(buffer), constructed into slot s.  allocs counts the
\* allocations the object has made, which names them apart.
TensorStorage_new(h, s, buffer) ==
    IF h.failed # "none" THEN h
    ELSE IF buffer.data # nullptr THEN Abort(h, "TensorStorage: !buffer_.data()")
    ELSE [h EXCEPT !.storage[s] = [live |-> TRUE, buffer |-> buffer, allocs |-> 0]]

\* Mutant of union_dim: the new use replaces the bounds instead of growing them.
union_dim_replaces(d, iv) ==
    [min |-> iv.min, extent |-> iv.max - iv.min + 1]

union_dim(d, iv) ==
    LET new_min == Min(d.min, iv.min)
        new_max == Max(dim_max(d), iv.max)
    IN [min |-> new_min, extent |-> new_max - new_min + 1]

\* Mutant of TensorStorage_add_use: only the lower bound grows.
TensorStorage_add_use_min_only(h, s, type, bounds) ==
    IF h.failed # "none" THEN h
    ELSE LET b == h.storage[s].buffer IN
         IF rank(b) = 0
         THEN [h EXCEPT !.storage[s].buffer = make_buffer(type, bounds)]
         ELSE [h EXCEPT !.storage[s].buffer.dim =
                   [i \in 1..rank(b) |->
                       [min |-> Min(b.dim[i].min, bounds[i].min),
                        extent |-> dim_max(b.dim[i]) - Min(b.dim[i].min, bounds[i].min) + 1]]]

TensorStorage_add_use(h, s, type, bounds) ==
    IF h.failed # "none" THEN h
    ELSE LET b == h.storage[s].buffer IN
         IF rank(b) = 0
         THEN [h EXCEPT !.storage[s].buffer = make_buffer(type, bounds)]
         ELSE IF b.type # type THEN Abort(h, "add_use: type")
         ELSE IF rank(b) # Len(bounds) THEN Abort(h, "add_use: rank")
         ELSE IF b.data # nullptr THEN Abort(h, "add_use: !buffer_.data()")
         ELSE [h EXCEPT !.storage[s].buffer.dim =
                   [i \in 1..rank(b) |-> union_dim(b.dim[i], bounds[i])]]

TensorStorage_is_allocated(h, s) == h.storage[s].buffer.data # nullptr

\* Mutant of TensorStorage_allocate: allocates whether or not it has already.
TensorStorage_allocate_always(h, s) ==
    IF h.failed # "none" THEN h
    ELSE [h EXCEPT !.storage[s].allocs = @ + 1,
                   !.storage[s].buffer =
                       make_with_shape_of(@, <<"storage", s, h.storage[s].allocs + 1>>)]

TensorStorage_allocate(h, s) ==
    IF h.failed # "none" THEN h
    ELSE IF h.storage[s].buffer.data = nullptr
    THEN [h EXCEPT !.storage[s].allocs = @ + 1,
                   !.storage[s].buffer =
                       make_with_shape_of(@, <<"storage", s, h.storage[s].allocs + 1>>)]
    ELSE h

(***************************************************************************)
(* Tensor                                                                  *)
(***************************************************************************)
\* Tensor(name, buffer, quantization)
Tensor_new(name, buffer, quantization) ==
    [name |-> name, buffer |-> buffer, quantization |-> quantization,
     is_constant |-> (buffer.data # nullptr), storage |-> 0]

\* Tensor(name, type, bounds, quantization)
Tensor_new_bounds(name, type, bounds, quantization) ==
    Tensor_new(name, make_buffer(type, bounds), quantization)

Tensor_is_allocated(h, t) == h.tensor[t].buffer.data # nullptr

\* Mutant of Tensor_storage: the new storage is not seeded with the
\* tensor's shape.
Tensor_storage_unseeded(h, t) ==
    IF h.failed # "none" THEN h
    ELSE IF h.tensor[t].storage = 0
    THEN LET h1 == TensorStorage_new(h, t, Buffer(h.tensor[t].buffer.type, <<>>))
         IN IF h1.failed # "none" THEN h1
            ELSE [h1 EXCEPT !.tensor[t].storage = t]
    ELSE h

\* storage(): the tensor's storage is h'.tensor[t].storage afterwards.
Tensor_storage(h, t) ==
    IF h.failed # "none" THEN h
    ELSE IF h.tensor[t].storage = 0
    THEN LET h1 == TensorStorage_new(h, t, h.tensor[t].buffer)
         IN IF h1.failed # "none" THEN h1
            ELSE [h1 EXCEPT !.tensor[t].storage = t]
    ELSE h

\* The loop of Tensor::allocate: dimensions i..rank of the storage's buffer.
\* r is [buffer, failed]; own is the tensor's buffer_.
RECURSIVE crop_to(_, _, _)
crop_to(r, own, i) ==
    IF r.failed # "none" \/ i > rank(r.buffer) THEN r
    ELSE IF i > rank(own)
    THEN [r EXCEPT !.failed = "dim: index out of range"]
    ELSE IF ~(r.buffer.dim[i].min <= own.dim[i].min)
    THEN [r EXCEPT !.failed = "allocate: min"]
    ELSE IF ~(dim_max(r.buffer.dim[i]) >= dim_max(own.dim[i]))
    THEN [r EXCEPT !.failed = "allocate: max"]
    ELSE crop_to([r EXCEPT !.buffer = crop(@, i, own.dim[i].min, own.dim[i].extent)],
                 own, i + 1)

\* Mutant of Tensor_allocate: no early return for an allocated tensor.
Tensor_allocate_without_return(h, t) ==
    IF h.failed # "none" THEN h
    ELSE LET h1 == Tensor_storage(h, t)
             h2 == TensorStorage_allocate(h1, h1.tensor[t].storage)
             r  == crop_to([buffer |-> h2.storage[h2.tensor[t].storage].buffer,
                            failed |-> "none"],
                           h2.tensor[t].buffer, 1)
         IN IF h1.failed # "none" THEN h1
            ELSE IF r.failed # "none" THEN Abort(h2, r.failed)
            ELSE [h2 EXCEPT !.tensor[t].buffer = r.buffer]

Tensor_allocate(h, t) ==
    IF h.failed # "none" THEN h
    ELSE IF h.tensor[t].buffer.data # nullptr THEN h
    ELSE LET h1 == Tensor_storage(h, t)
             h2 == TensorStorage_allocate(h1, h1.tensor[t].storage)
             r  == crop_to([buffer |-> h2.storage[h2.tensor[t].storage].buffer,
                            failed |-> "none"],
                           h2.tensor[t].buffer, 1)
         IN IF h1.failed # "none" THEN h1
            ELSE IF r.failed # "none" THEN Abort(h2, r.failed)
            ELSE [h2 EXCEPT !.tensor[t].buffer = r.buffer]

\* Mutant of Tensor_set_alias_of: adopts the storage without registering a use.
Tensor_set_alias_of_without_use(h, a, t) ==
    IF h.failed # "none" THEN h
    ELSE LET h1 == Tensor_storage(h, t)
         IN IF h1.failed # "none" THEN h1
            ELSE [h1 EXCEPT !.tensor[a].storage = h1.tensor[t].storage]

Tensor_set_alias_of(h, a, t) ==
    IF h.failed # "none" THEN h
    ELSE LET h1 == Tensor_storage(h, t)
         IN IF h1.failed # "none" THEN h1
            ELSE LET h2 == [h1 EXCEPT !.tensor[a].storage = h1.tensor[t].storage]
                 IN TensorStorage_add_use(h2, h2.tensor[a].storage,
                                          h2.tensor[a].buffer.type,
                                          box(h2.tensor[a].buffer))

(***************************************************************************)
(* Tensor-level specification: the loader has constructed NumTensors       *)
(* tensors, constants from populated buffers and the others from type and  *)
(* bounds; then storage(), set_alias_of() and allocate() are called in any *)
(* order.                                                                  *)
(***************************************************************************)
TensorIds == 1..NumTensors

\* What the loader may construct as tensor i: the last tensor may be a
\* constant (a weight) and may differ in type from the others, which are
\* "u8" intermediates; every tensor has any of the boxes, of any rank.
Configs(i, n) ==
    [type     : IF i = n THEN Types ELSE {"u8"},
     bounds   : Boxes,
     constant : IF i = n THEN BOOLEAN ELSE {FALSE}]

\* A populated buffer: make_buffer's shape with its own allocation.
populated(type, bounds, id) == [make_buffer(type, bounds) EXCEPT !.data = id]

Constructed(i, c) ==
    IF c.constant
    THEN Tensor_new(i, populated(c.type, c.bounds, <<"constant", i>>), i)
    ELSE Tensor_new_bounds(i, c.type, c.bounds, i)

\* The heaps after the loader has constructed n tensors.
Loaded(n) ==
    {[i \in 1..n |-> Constructed(i, cfg[i])] :
        cfg \in {c \in [1..n -> UNION {Configs(i, n) : i \in 1..n}] :
                    \A i \in 1..n : c[i] \in Configs(i, n)}}

NoModel == <<>>
NoCall == [name |-> "none"]

Init ==
    /\ tensor \in Loaded(NumTensors)
    /\ storage = [i \in TensorIds |-> NoStorage]
    /\ failed = "none"
    /\ model = NoModel
    /\ uses = <<>>
    /\ call = NoCall

\* The calls on tensors.  call is the last call made on a model, with the
\* number of calls on tensors made since (counted after a clone only, where
\* the runs are cut off after MaxRunCalls of them).
Counted ==
    /\ call.name = "clone" => call.calls < MaxRunCalls
    /\ call' = IF call.name = "clone" THEN [call EXCEPT !.calls = @ + 1] ELSE call

CallStorage(t) ==
    /\ failed = "none"
    /\ Install(Tensor_storage(Here, t))
    /\ Counted
    /\ UNCHANGED <<model, uses>>

CallSetAliasOf(a, t) ==
    /\ failed = "none"
    /\ Install(Tensor_set_alias_of(Here, a, t))
    /\ Counted
    /\ UNCHANGED <<model, uses>>

CallAllocate(t) ==
    /\ failed = "none"
    /\ Install(Tensor_allocate(Here, t))
    /\ Counted
    /\ UNCHANGED <<model, uses>>

Storage == \E t \in DOMAIN tensor : CallStorage(t)
SetAliasOf == \E a \in DOMAIN tensor, t \in DOMAIN tensor : CallSetAliasOf(a, t)
Allocate == \E t \in DOMAIN tensor : CallAllocate(t)

Next == Storage \/ SetAliasOf \/ Allocate

Spec == Init /\ [][Next]_vars

(***************************************************************************)
(* Storage-level specification: one TensorStorage, not yet allocated, and  *)
(* a sequence of add_use calls of one type and rank on it.  The storage is *)
(* either default-constructed, or seeded by Tensor::storage() from the     *)
(* buffer of a tensor, whose bounds are then the first of the uses.        *)
(* uses.calls are the bounds supplied and uses.n of them have been made.   *)
(***************************************************************************)
RECURSIVE SeqsUpTo(_, _)
SeqsUpTo(S, n) ==
    IF n = 0 THEN {<<>>}
    ELSE LET shorter == SeqsUpTo(S, n - 1)
         IN shorter \cup {Append(q, x) : q \in {r \in shorter : Len(r) = n - 1}, x \in S}

\* TensorStorage(): an empty buffer_.
TensorStorage_default == [live |-> TRUE, buffer |-> Buffer("none", <<>>), allocs |-> 0]

\* The 1-D uses [-2, 7] then [0, 9].
ExampleUses == << <<[min |-> -2, max |-> 7]>>, <<[min |-> 0, max |-> 9]>> >>

InitUse ==
    /\ \E r \in 0..MaxRank, ty \in Types, seeded \in BOOLEAN :
       \E calls \in SeqsUpTo(BoxesOfRank(Intervals, r), MaxUses) \cup {ExampleUses} :
          /\ Len(calls) >= 1
          /\ uses = [type |-> ty, calls |-> calls, n |-> IF seeded THEN 1 ELSE 0]
          /\ storage = IF seeded
                        THEN TensorStorage_new([tensor |-> <<>>, storage |-> <<NoStorage>>,
                                                failed |-> "none"],
                                               1, make_buffer(ty, calls[1])).storage
                        ELSE <<TensorStorage_default>>
    /\ tensor = <<>>
    /\ failed = "none"
    /\ model = NoModel
    /\ call = NoCall

AddUse ==
    /\ failed = "none"
    /\ uses.n < Len(uses.calls)
    /\ LET h == TensorStorage_add_use(Here, 1, uses.type, uses.calls[uses.n + 1])
       IN /\ storage' = h.storage
          /\ failed' = h.failed
    /\ uses' = [uses EXCEPT !.n = @ + 1]
    /\ UNCHANGED <<tensor, model, call>>

NextUse == AddUse

SpecUse == InitUse /\ [][NextUse]_vars

(***************************************************************************)
(* Model: the ordered tensor list and the ordered op list.  An op is an    *)
(* object (id) with its input and output tensors, referenced by identity.  *)
(***************************************************************************)
\* Mutant of InsertAt: the element goes after position i, not before it.
InsertAt_after(q, i, x) == SubSeq(q, 1, i) \o <<x>> \o SubSeq(q, i + 1, Len(q))

\* insert(i, x) of a sequence container: x goes before position i.
InsertAt(q, i, x) == SubSeq(q, 1, i - 1) \o <<x>> \o SubSeq(q, i, Len(q))

\* Mutant of consumes: only the first input of the op is compared.
consumes_first_input(i, to_insert) ==
    \E j \in 1..Len(to_insert.out) : Len(i.in) >= 1 /\ i.in[1] = to_insert.out[j]

\* (*i)->input(k) == to_insert->output(j) for some j, k.
consumes(i, to_insert) ==
    \E j \in 1..Len(to_insert.out) : \E k \in 1..Len(i.in) : i.in[k] = to_insert.out[j]

\* Mutant of insert_op_from: the new op is assigned to the position found,
\* in the place of the op that was there.
RECURSIVE insert_op_from_replaces(_, _, _, _)
insert_op_from_replaces(ops, to_insert, before, i) ==
    IF i > Len(ops) THEN Append(ops, to_insert)
    ELSE IF ops[i].id = before THEN [ops EXCEPT ![i] = to_insert]
    ELSE IF consumes(ops[i], to_insert) THEN [ops EXCEPT ![i] = to_insert]
    ELSE insert_op_from_replaces(ops, to_insert, before, i + 1)

\* The scan of Model::insert(op, before) from position i of ops.
RECURSIVE insert_op_from(_, _, _, _)
insert_op_from(ops, to_insert, before, i) ==
    IF i > Len(ops) THEN Append(ops, to_insert)
    ELSE IF ops[i].id = before THEN InsertAt(ops, i, to_insert)
    ELSE IF consumes(ops[i], to_insert) THEN InsertAt(ops, i, to_insert)
    ELSE insert_op_from(ops, to_insert, before, i + 1)

\* Mutant of Model_insert_op: the anchor alone decides the place.
RECURSIVE insert_before_anchor_from(_, _, _, _)
insert_before_anchor_from(ops, to_insert, before, i) ==
    IF i > Len(ops) THEN Append(ops, to_insert)
    ELSE IF ops[i].id = before THEN InsertAt(ops, i, to_insert)
    ELSE insert_before_anchor_from(ops, to_insert, before, i + 1)

Model_insert_op_anchor_only(ops, to_insert, before) ==
    insert_before_anchor_from(ops, to_insert, before, 1)

Model_insert_op(ops, to_insert, before) == insert_op_from(ops, to_insert, before, 1)

\* The scan of Model::insert(tensor, after) from position i of tensors.
RECURSIVE insert_tensor_from(_, _, _, _)
insert_tensor_from(tensors, to_insert, after, i) ==
    IF i > Len(tensors) THEN Append(tensors, to_insert)
    ELSE IF tensors[i] = after THEN InsertAt(tensors, i + 1, to_insert)
    ELSE insert_tensor_from(tensors, to_insert, after, i + 1)

\* Mutant of Model_insert_tensor: the new tensor goes before the anchor.
RECURSIVE insert_tensor_before_from(_, _, _, _)
insert_tensor_before_from(tensors, to_insert, after, i) ==
    IF i > Len(tensors) THEN Append(tensors, to_insert)
    ELSE IF tensors[i] = after THEN InsertAt(tensors, i, to_insert)
    ELSE insert_tensor_before_from(tensors, to_insert, after, i + 1)

Model_insert_tensor_before(tensors, to_insert, after) ==
    insert_tensor_before_from(tensors, to_insert, after, 1)

Model_insert_tensor(tensors, to_insert, after) ==
    insert_tensor_from(tensors, to_insert, after, 1)

\* Mutant of apply: the map is ignored.
apply_ignores_map(map, t) == t

\* apply(map, t): the tensor t is remapped to, or t itself.
apply(map, t) == IF t \in DOMAIN map THEN map[t] ELSE t

\* Op::clone(map): a new op whose inputs and outputs are remapped by apply.
Op_clone(op, map) ==
    [id  |-> op.id,
     in  |-> [k \in 1..Len(op.in) |-> apply(map, op.in[k])],
     out |-> [k \in 1..Len(op.out) |-> apply(map, op.out[k])]]

\* Mutant of Tensor_copy: a member-wise copy, storage_ included.
Tensor_copy_memberwise(t) == t

\* Tensor(const Tensor &): the copy the clone substitutes for an
\* unallocated tensor: same name, buffer shape, quantization and constant
\* flag, and no storage binding yet.
Tensor_copy(t) ==
    [name |-> t.name, buffer |-> t.buffer, quantization |-> t.quantization,
     is_constant |-> t.is_constant, storage |-> 0]

\* Mutant of clone_tensors_from: the copy is made by moving from the
\* source's tensor, which loses its storage binding.
RECURSIVE clone_tensors_from_moving(_, _)
clone_tensors_from_moving(c, i) ==
    IF i > Len(c.tensors) THEN c
    ELSE LET old == c.tensors[i] IN
         IF ~Tensor_is_allocated(c.h, old)
         THEN LET cloned == Len(c.h.tensor) + 1
              IN clone_tensors_from_moving(
                    [h       |-> [c.h EXCEPT !.tensor = Append([@ EXCEPT ![old].storage = 0],
                                                               Tensor_copy(c.h.tensor[old])),
                                            !.storage = Append(@, NoStorage)],
                     tensors |-> [c.tensors EXCEPT ![i] = cloned],
                     map     |-> [t \in DOMAIN c.map \cup {old} |->
                                     IF t = old THEN cloned ELSE c.map[t]]],
                    i + 1)
         ELSE clone_tensors_from_moving(c, i + 1)

\* The loop of Model(const Model &) over the copied tensor list, from
\* position i.  c is [h, tensors, map]; a new tensor object is appended to
\* the heap, with the slot of the storage it may create later.
RECURSIVE clone_tensors_from(_, _)
clone_tensors_from(c, i) ==
    IF i > Len(c.tensors) THEN c
    ELSE LET old == c.tensors[i] IN
         IF ~Tensor_is_allocated(c.h, old)
         THEN LET cloned == Len(c.h.tensor) + 1
              IN clone_tensors_from(
                    [h       |-> [c.h EXCEPT !.tensor = Append(@, Tensor_copy(c.h.tensor[old])),
                                            !.storage = Append(@, NoStorage)],
                     tensors |-> [c.tensors EXCEPT ![i] = cloned],
                     map     |-> [t \in DOMAIN c.map \cup {old} |->
                                     IF t = old THEN cloned ELSE c.map[t]]],
                    i + 1)
         ELSE clone_tensors_from(c, i + 1)

\* Mutant of Model_copy: the tensor list is copied and no tensor is cloned.
Model_copy_shares_all(h, copy) == [h |-> h, model |-> copy]

\* Model(const Model &copy): [h, model], the heap and the new model.
Model_copy(h, copy) ==
    LET c == clone_tensors_from([h |-> h, tensors |-> copy.tensors, map |-> <<>>], 1)
    IN [h     |-> c.h,
        model |-> [tensors |-> c.tensors,
                   ops     |-> [k \in 1..Len(copy.ops) |-> Op_clone(copy.ops[k], c.map)]]]

(***************************************************************************)
(* Graph-level specification: passes insert ops one at a time into one     *)
(* model.  The ops reference the tensors OpTensors; each has up to         *)
(* MaxInputs inputs and MaxOutputs outputs.  The anchor is an op of the    *)
(* list or 0, a pointer to no op of the list.  call is the last call made  *)
(* on a model; the op an insert inserted is the one with the greatest id.  *)
(***************************************************************************)
OpTensors == 1..NumOpTensors

\* The tensor lists of an op: distinct tensors, in ascending order (the
\* scan of insert depends on the lists only through their elements).
TensorLists(n) ==
    {q \in SeqsUpTo(OpTensors, n) : \A k \in 1..(Len(q) - 1) : q[k] < q[k + 1]}

InputLists == TensorLists(MaxInputs)
OutputLists == TensorLists(MaxOutputs)

NewOps(id) == [id : {id}, in : InputLists, out : OutputLists]

Ops == model[1].ops

InitIns ==
    /\ model = <<[tensors |-> <<>>, ops |-> <<>>]>>
    /\ tensor = <<>>
    /\ storage = <<>>
    /\ failed = "none"
    /\ uses = <<>>
    /\ call = NoCall

CallInsertOp(to_insert, before) ==
    /\ Len(Ops) < MaxOps
    /\ model' = [model EXCEPT ![1].ops = Model_insert_op(@, to_insert, before)]
    /\ call' = [name |-> "insert", before |-> before]
    /\ UNCHANGED <<tensor, storage, failed, uses>>

InsertOp ==
    \E to_insert \in NewOps(Len(Ops) + 1) :
    \E before \in {0} \cup {Ops[i].id : i \in 1..Len(Ops)} :
        CallInsertOp(to_insert, before)

NextIns == InsertOp

SpecIns == InitIns /\ [][NextIns]_vars

(***************************************************************************)
(* Clone-level specification: the loader has built model 1 from            *)
(* NumCloneTensors tensors and two ops over them; runs call storage(),     *)
(* set_alias_of() and allocate() on the tensors of their own model, and    *)
(* the model is cloned at any moment (up to MaxClones times).              *)
(***************************************************************************)
CloneTensorIds == 1..NumCloneTensors

\* The loader's tensor lists: any tensors in any order, possibly repeated.
CloneTensorLists == SeqsUpTo(CloneTensorIds, NumCloneTensors)

\* The loader's ops: the first reads every tensor and writes the last, the
\* second reads the last and writes the first.
CloneOps ==
    <<[id |-> 1, in |-> [k \in CloneTensorIds |-> k], out |-> <<NumCloneTensors>>],
      [id |-> 2, in |-> <<NumCloneTensors>>, out |-> <<1>>]>>

\* The tensors a run on model m works with.
TensorsOf(m) ==
    {model[m].tensors[i] : i \in 1..Len(model[m].tensors)}
    \cup UNION {{model[m].ops[k].in[j] : j \in 1..Len(model[m].ops[k].in)}
                 \cup {model[m].ops[k].out[j] : j \in 1..Len(model[m].ops[k].out)} :
                k \in 1..Len(model[m].ops)}

\* The loader's tensors: all "u8" and of one rank r; tensor i covers, in
\* every dimension, the one coordinate i - 1, so that aliasing two of them
\* grows the storage beyond either; the last may be a constant.
CloneBox(i, r) == [d \in 1..r |-> [min |-> i - 1, max |-> i - 1]]

LoadedForClone ==
    {[i \in CloneTensorIds |->
         Constructed(i, [type |-> "u8", bounds |-> CloneBox(i, r),
                         constant |-> (i = NumCloneTensors /\ const)])] :
        r \in 0..MaxRank, const \in BOOLEAN}

InitClone ==
    /\ tensor \in LoadedForClone
    /\ storage = [i \in CloneTensorIds |-> NoStorage]
    /\ failed = "none"
    /\ \E list \in CloneTensorLists : model = <<[tensors |-> list, ops |-> CloneOps]>>
    /\ uses = <<>>
    /\ call = NoCall

\* The pairs of tensors one run works with.
RunPairs == UNION {TensorsOf(m) \X TensorsOf(m) : m \in DOMAIN model}

RunStorage == \E p \in RunPairs : p[1] = p[2] /\ CallStorage(p[1])

RunSetAliasOf == \E p \in RunPairs : CallSetAliasOf(p[1], p[2])

RunAllocate == \E p \in RunPairs : p[1] = p[2] /\ CallAllocate(p[1])

CallClone(m) ==
    /\ failed = "none"
    /\ Len(model) <= MaxClones
    /\ LET r == Model_copy(Here, model[m])
       IN /\ Install(r.h)
          /\ model' = Append(model, r.model)
    /\ call' = [name |-> "clone", of |-> m, calls |-> 0]
    /\ UNCHANGED uses

Clone == \E m \in DOMAIN model : CallClone(m)

NextClone == RunStorage \/ RunSetAliasOf \/ RunAllocate \/ Clone

SpecClone == InitClone /\ [][NextClone]_vars

(***************************************************************************)
(* Model-level specification: one owner at a time calls insert(tensor),    *)
(* insert(op), accept and the copy constructor on the models.  The tensors *)
(* keep the allocation state the loader gave them.  accept is a loop: call *)
(* is its activation, with the model m, the cursor i (the number of        *)
(* iterations done) and visits, the ids of the ops the visitor was invoked *)
(* on, in order; in an iteration the visitor may insert an op into the     *)
(* model, anywhere.  Nothing else runs during accept.  An op's id is       *)
(* unique in its model.                                                    *)
(***************************************************************************)
\* The ops of the passes: every op writes tensor 1, and reads it or not.
GraphNewOps(id) == [id : {id}, in : {<<>>, <<1>>}, out : {<<1>>}]

\* The loader's tensors: rank 0, the last one a constant or not.
GraphTensorIds == 1..NumGraphTensors

GraphLoaded ==
    {[i \in GraphTensorIds |->
         Constructed(i, [type |-> "u8", bounds |-> <<>>,
                         constant |-> (i = NumGraphTensors /\ const)])] :
        const \in BOOLEAN}

InitGraph ==
    /\ tensor \in GraphLoaded
    /\ storage = [i \in GraphTensorIds |-> NoStorage]
    /\ failed = "none"
    /\ model = <<[tensors |-> <<>>, ops |-> <<>>]>>
    /\ uses = <<>>
    /\ call = NoCall

Idle == call.name # "accept"

CallInsertTensorIn(m, to_insert, after) ==
    /\ Idle
    /\ Len(model[m].tensors) < MaxListed
    /\ model' = [model EXCEPT ![m].tensors = Model_insert_tensor(@, to_insert, after)]
    /\ call' = [name |-> "insert_tensor", m |-> m, to_insert |-> to_insert,
                after |-> after]
    /\ UNCHANGED <<tensor, storage, failed, uses>>

CallInsertOpIn(m, to_insert, before) ==
    /\ Idle
    /\ Len(model[m].ops) < MaxGraphOps
    /\ model' = [model EXCEPT ![m].ops = Model_insert_op(@, to_insert, before)]
    /\ call' = [name |-> "insert_op", m |-> m]
    /\ UNCHANGED <<tensor, storage, failed, uses>>

\* The anchors of a call on model m: the ops of the list, or none of them.
Anchors(m) == {0} \cup {model[m].ops[i].id : i \in 1..Len(model[m].ops)}

\* accept(v) is entered: i = 0.  size is ops.size() at the entry.
AcceptBegin(m) ==
    /\ Idle
    /\ call' = [name |-> "accept", m |-> m, i |-> 0, visits |-> <<>>,
                size |-> Len(model[m].ops)]
    /\ UNCHANGED <<tensor, storage, failed, model, uses>>

\* One iteration: i < ops.size(), ops[i]->accept(v), i++.  The visitor
\* inserts nothing (inserts = 0) or the op to_insert before the anchor.
AcceptVisit(inserts, to_insert, before) ==
    /\ call.name = "accept"
    /\ call.i < Len(model[call.m].ops)
    /\ call' = [call EXCEPT !.i = @ + 1,
                            !.visits = Append(@, model[call.m].ops[call.i + 1].id)]
    /\ IF inserts = 0
       THEN model' = model
       ELSE /\ Len(model[call.m].ops) < MaxGraphOps
            /\ model' = [model EXCEPT ![call.m].ops =
                                         Model_insert_op(@, to_insert, before)]
    /\ UNCHANGED <<tensor, storage, failed, uses>>

\* Mutant of AcceptReturn: the loop ends one position early.
AcceptReturn_early ==
    /\ call.name = "accept"
    /\ call.i >= Len(model[call.m].ops) - 1
    /\ call' = [name |-> "accepted", m |-> call.m, visits |-> call.visits,
                size |-> call.size]
    /\ UNCHANGED <<tensor, storage, failed, model, uses>>

\* The loop ends: i >= ops.size().
AcceptReturn ==
    /\ call.name = "accept"
    /\ call.i >= Len(model[call.m].ops)
    /\ call' = [name |-> "accepted", m |-> call.m, visits |-> call.visits,
                size |-> call.size]
    /\ UNCHANGED <<tensor, storage, failed, model, uses>>

\* The model being worked on: the newest one.  Once a model is cloned, the
\* passes go on with the clone.
Current == Len(model)

\* A tensor is inserted into a model once: to_insert is not in the list.
\* The anchor is a tensor of the list, a tensor that is not in it (the
\* least such), or 0 for the null pointer.
Unlisted(m) == DOMAIN tensor \ {model[m].tensors[i] : i \in 1..Len(model[m].tensors)}

TensorAnchors(m) ==
    {0} \cup {model[m].tensors[i] : i \in 1..Len(model[m].tensors)}
        \cup {t \in Unlisted(m) : \A u \in Unlisted(m) : t <= u}

GraphInsertTensor ==
    \E to_insert \in Unlisted(Current), after \in TensorAnchors(Current) :
        CallInsertTensorIn(Current, to_insert, after)

GraphInsertOp ==
    \E to_insert \in GraphNewOps(Len(model[Current].ops) + 1),
       before \in Anchors(Current) :
        CallInsertOpIn(Current, to_insert, before)

Accept == AcceptBegin(Current)

Visit ==
    /\ call.name = "accept"
    /\ \E inserts \in {0, 1} :
       \E to_insert \in GraphNewOps(Len(model[call.m].ops) + 1),
          before \in Anchors(call.m) :
          AcceptVisit(inserts, to_insert, before)

GraphClone == Idle /\ CallClone(Current)

NextGraph ==
    GraphInsertTensor \/ GraphInsertOp \/ Accept \/ Visit \/ AcceptReturn \/ GraphClone

SpecGraph == InitGraph /\ [][NextGraph]_vars

\* accept is sequential code: once entered, its loop goes on to the next
\* iteration, and returns when the cursor has reached the end.
SpecAccept == SpecGraph /\ WF_vars(Visit) /\ WF_vars(AcceptReturn)

(***************************************************************************)
(* Vocabulary of the properties.                                           *)
(***************************************************************************)
\* Buffer outer covers, per dimension, the bounds of buffer inner.
Contains(outer, inner) ==
    /\ rank(outer) = rank(inner)
    /\ \A i \in 1..rank(inner) :
          /\ outer.dim[i].min <= inner.dim[i].min
          /\ dim_max(outer.dim[i]) >= dim_max(inner.dim[i])

\* view addresses, at every coordinate of its own bounds, the element that
\* whole addresses at that coordinate, in the same allocation.
IsCropOf(view, whole) ==
    /\ view.data # nullptr
    /\ view.data = whole.data
    /\ Contains(whole, view)
    /\ \A i \in 1..rank(view) :
          view.host[i] - view.dim[i].min = whole.host[i] - whole.dim[i].min

LeastOf(S) == CHOOSE x \in S : \A y \in S : x <= y
GreatestOf(S) == CHOOSE x \in S : \A y \in S : x >= y

Unallocated(t) == tensor[t].buffer.data = nullptr
SameTypeAndRank(a, t) ==
    /\ tensor[a].buffer.type = tensor[t].buffer.type
    /\ rank(tensor[a].buffer) = rank(tensor[t].buffer)
AllSameTypeAndRank == \A a \in DOMAIN tensor, t \in DOMAIN tensor : SameTypeAndRank(a, t)
Bound(t) == tensor[t].storage # 0
StorageOf(t) == storage[tensor[t].storage]

(***************************************************************************)
(* Vocabulary of the clone: in a step that clones model m, Source(m) is    *)
(* the source and Cloned the new model; x is listed in a model when it is  *)
(* in the model's tensor list.                                             *)
(***************************************************************************)
Cloned == model'[Len(model) + 1]
Listed(mdl) == {mdl.tensors[i] : i \in 1..Len(mdl.tensors)}
SameDeclaration(a, b) ==
    /\ a.name = b.name
    /\ a.buffer.type = b.buffer.type
    /\ box(a.buffer) = box(b.buffer)
    /\ a.buffer.dim = b.buffer.dim
    /\ a.quantization = b.quantization

(***************************************************************************)
(* C4: the clone's tensor list has the length of the source's, and at      *)
(* every position it holds the source's tensor itself when that tensor is  *)
(* allocated at the clone, and otherwise a new tensor object, at no other  *)
(* position of the list, with the same name, type, bounds and              *)
(* quantization.                                                           *)
(***************************************************************************)
C4_CloneSharesAllocatedCopiesUnallocated ==
    [][\A m \in DOMAIN model :
          CallClone(m) =>
             /\ failed' = "none"
             /\ Len(model') = Len(model) + 1
             /\ Len(Cloned.tensors) = Len(model[m].tensors)
             /\ \A i \in 1..Len(model[m].tensors) :
                   LET old == model[m].tensors[i]
                       new == Cloned.tensors[i]
                   IN IF ~Unallocated(old)
                      THEN new = old /\ tensor'[new] = tensor[old]
                      ELSE /\ new \notin DOMAIN tensor
                           /\ new \in DOMAIN tensor'
                           /\ \A j \in 1..Len(Cloned.tensors) :
                                 j # i => Cloned.tensors[j] # new
                           /\ SameDeclaration(tensor'[new], tensor[old])
                           /\ tensor'[new].buffer.data = nullptr]_vars

\* A clone of a model that lists an allocated and an unallocated tensor.
C4_Witness ==
    /\ call.name = "clone" /\ call.calls = 0 /\ Len(model) = 2
    /\ \E i \in 1..Len(model[1].tensors), j \in 1..Len(model[1].tensors) :
          /\ model[2].tensors[i] = model[1].tensors[i]
          /\ ~Unallocated(model[1].tensors[i])
          /\ model[2].tensors[j] # model[1].tensors[j]
          /\ Unallocated(model[1].tensors[j])

(***************************************************************************)
(* C5: a tensor that is unallocated when the model is cloned is            *)
(* independent in the clone.  Its copy has no storage binding, even when   *)
(* the tensor had a storage bound; and a later allocate() or               *)
(* set_alias_of() on the copy, or on the tensor, changes neither whether   *)
(* the other of the two is allocated, nor its buffer, its storage binding, *)
(* or the bounds of its storage.                                           *)
(***************************************************************************)
\* The pairs <<tensor, copy>> the clones have made.
Copies ==
    {<<model[1].tensors[i], model[m].tensors[i]>> :
        m \in DOMAIN model, i \in 1..Len(model[1].tensors)}
    \ {<<t, t>> : t \in DOMAIN tensor}

\* What of tensor t a call may not change.
SameTensor(t) ==
    /\ tensor'[t].buffer = tensor[t].buffer
    /\ tensor'[t].storage = tensor[t].storage
    /\ Bound(t) => storage'[tensor[t].storage].buffer.dim = StorageOf(t).buffer.dim

C5_CopiesAreIndependent ==
    [][/\ \A m \in DOMAIN model :
             CallClone(m) =>
                \A i \in 1..Len(model[m].tensors) :
                    Unallocated(model[m].tensors[i]) =>
                        tensor'[Cloned.tensors[i]].storage = 0
       /\ \A p \in Copies : \A a \in {p[1], p[2]} : \A b \in {p[1], p[2]} \ {a} :
             \A t \in DOMAIN tensor :
                ((CallAllocate(a) \/ CallSetAliasOf(a, t)) /\ failed' = "none")
                => SameTensor(b)]_vars

\* A tensor with a storage bound was copied, and the copy has since been
\* aliased and allocated: it has a storage of its own, and the tensor's
\* storage is as it was.
C5_Witness ==
    /\ failed = "none" /\ call.name = "clone" /\ call.calls >= 2
    /\ \E p \in Copies :
          /\ Bound(p[1]) /\ Unallocated(p[1])
          /\ StorageOf(p[1]).buffer.data = nullptr
          /\ ~Unallocated(p[2]) /\ Bound(p[2])
          /\ tensor[p[2]].storage # p[2]
          /\ tensor[p[2]].storage # tensor[p[1]].storage

(***************************************************************************)
(* C6: after a clone of a model whose ops reference listed tensors only,   *)
(* every tensor reachable from both the source and the clone is a          *)
(* constant, and no storage is reachable from both through tensors that    *)
(* are not constants.                                                      *)
(***************************************************************************)
WellFormed(m) == TensorsOf(m) = Listed(model[m])

C6_OnlyConstantsShared ==
    (failed = "none" /\ Len(model) >= 2 /\ WellFormed(1)) =>
        /\ \A t \in TensorsOf(1) \cap TensorsOf(2) : tensor[t].is_constant
        /\ \A a \in TensorsOf(1), b \in TensorsOf(2) :
              (~tensor[a].is_constant /\ ~tensor[b].is_constant /\ Bound(a))
              => tensor[a].storage # tensor[b].storage

(***************************************************************************)
(* C7: the clone has the source's ops in the source's order, each with as  *)
(* many inputs and outputs; where a source op references a tensor of the   *)
(* source's tensor list, the cloned op references that same tensor if it   *)
(* is allocated at the clone and otherwise the new tensor the clone's list *)
(* holds in its place; a tensor outside the list is not remapped.  So if   *)
(* every tensor of the source's ops is in the source's list, every tensor  *)
(* of the clone's ops is in the clone's list.                              *)
(***************************************************************************)
Remapped(m, old, new) ==
    IF old \in Listed(model[m])
    THEN IF ~Unallocated(old)
         THEN new = old
         ELSE /\ new \notin DOMAIN tensor
              /\ \E i \in 1..Len(model[m].tensors) :
                    model[m].tensors[i] = old /\ Cloned.tensors[i] = new
    ELSE new = old

OpTensorsOf(mdl) ==
    UNION {{mdl.ops[k].in[j] : j \in 1..Len(mdl.ops[k].in)}
           \cup {mdl.ops[k].out[j] : j \in 1..Len(mdl.ops[k].out)} : k \in 1..Len(mdl.ops)}

C7_ClonedOpsReferenceClonedTensors ==
    [][\A m \in DOMAIN model :
          CallClone(m) =>
             /\ Len(Cloned.ops) = Len(model[m].ops)
             /\ \A k \in 1..Len(model[m].ops) :
                   LET old == model[m].ops[k]
                       new == Cloned.ops[k]
                   IN /\ new.id = old.id
                      /\ Len(new.in) = Len(old.in)
                      /\ Len(new.out) = Len(old.out)
                      /\ \A j \in 1..Len(old.in) : Remapped(m, old.in[j], new.in[j])
                      /\ \A j \in 1..Len(old.out) : Remapped(m, old.out[j], new.out[j])
             /\ OpTensorsOf(model[m]) \subseteq Listed(model[m])
                   => OpTensorsOf(Cloned) \subseteq Listed(Cloned)]_vars

\* A clone whose ops reference a copied tensor and a shared one, all listed.
C7_Witness ==
    /\ call.name = "clone" /\ call.calls = 0 /\ Len(model) = 2
    /\ OpTensorsOf(model[1]) \subseteq Listed(model[1])
    /\ \E k \in 1..Len(model[1].ops) : \E i \in 1..Len(model[1].ops[k].in),
                                            j \in 1..Len(model[1].ops[k].in) :
          /\ model[2].ops[k].in[i] = model[1].ops[k].in[i]
          /\ ~Unallocated(model[1].ops[k].in[i])
          /\ model[2].ops[k].in[j] # model[1].ops[k].in[j]
          /\ model[2].ops[k].in[j] \in Listed(model[2])

(***************************************************************************)
(* C8: when a.set_alias_of(t) returns, for unallocated a and t of equal    *)
(* type and rank, a and t point to the same storage object and its bounds  *)
(* contain the bounds a and t had at the call, whatever storages and       *)
(* aliases a and t had before.                                             *)
(***************************************************************************)
C8_AliasSharesCoveringStorage ==
    [][\A a \in DOMAIN tensor, t \in DOMAIN tensor :
          (/\ Unallocated(a) /\ Unallocated(t) /\ SameTypeAndRank(a, t)
           /\ CallSetAliasOf(a, t)
           /\ failed' = "none")
          => /\ tensor'[a].storage # 0
             /\ tensor'[a].storage = tensor'[t].storage
             /\ Contains(storage'[tensor'[a].storage].buffer, tensor[a].buffer)
             /\ Contains(storage'[tensor'[a].storage].buffer, tensor[t].buffer)]_vars

\* a and t share, with a third tensor aliased earlier, a storage that is
\* strictly larger than the bounds of either.
C8_Witness ==
    \E a \in DOMAIN tensor, t \in DOMAIN tensor, c \in DOMAIN tensor :
        /\ failed = "none" /\ a # t /\ c # a /\ c # t
        /\ tensor[c].storage = tensor[t].storage
        /\ Unallocated(a) /\ Unallocated(t) /\ SameTypeAndRank(a, t)
        /\ Bound(a) /\ tensor[a].storage = tensor[t].storage
        /\ rank(tensor[a].buffer) >= 1
        /\ ~Contains(tensor[a].buffer, StorageOf(a).buffer)
        /\ ~Contains(tensor[t].buffer, StorageOf(a).buffer)

(***************************************************************************)
(* C9: two distinct non-constant tensors bound to one storage by           *)
(* set_alias_of: each of them that is allocated has, as its view, the crop *)
(* of that storage's one buffer to exactly its own bounds.                 *)
(***************************************************************************)
C9_AliasedViewsCropSharedStorage ==
    \A a \in DOMAIN tensor, t \in DOMAIN tensor :
        (/\ a # t /\ Bound(a) /\ tensor[a].storage = tensor[t].storage
         /\ ~tensor[a].is_constant /\ ~tensor[t].is_constant
         /\ SameTypeAndRank(a, t)
         /\ ~Unallocated(a))
        => IsCropOf(tensor[a].buffer, StorageOf(a).buffer)

(***************************************************************************)
(* C10: when all tensors have the same type and rank, no call fails a      *)
(* containment assertion of Tensor::allocate, and after every call every   *)
(* tensor bound to a storage has its bounds contained in the storage's     *)
(* bounds.                                                                 *)
(***************************************************************************)
BoundsContained ==
    \A t \in DOMAIN tensor :
        Bound(t) => Contains(StorageOf(t).buffer, tensor[t].buffer)

C10_BoundsContained ==
    [][AllSameTypeAndRank =>
          /\ failed' \notin {"allocate: min", "allocate: max", "dim: index out of range"}
          /\ BoundsContained']_vars

\* An allocated tensor of rank >= 1 whose storage, grown by an alias, is
\* strictly larger than the tensor's own bounds.
C10_Witness ==
    /\ failed = "none" /\ AllSameTypeAndRank
    /\ \E t \in DOMAIN tensor :
          /\ ~tensor[t].is_constant /\ ~Unallocated(t) /\ Bound(t)
          /\ StorageOf(t).buffer.data # nullptr
          /\ rank(tensor[t].buffer) >= 1
          /\ ~Contains(tensor[t].buffer, StorageOf(t).buffer)

(***************************************************************************)
(* C1: Model::insert(op, before) preserves topological validity: if every  *)
(* op that consumes a tensor comes later in the list than every op that    *)
(* produces it, the same holds after the insert, for any new op and any    *)
(* anchor.                                                                 *)
(***************************************************************************)
TopologicallyValid(ops) ==
    \A i \in 1..Len(ops), j \in 1..Len(ops) :
        (i # j /\ consumes(ops[j], ops[i])) => i < j

C1_InsertPreservesTopologicalOrder ==
    [][(TopologicallyValid(Ops) /\ InsertOp) => TopologicallyValid(Ops)']_vars

(***************************************************************************)
(* C2: insert(newOp, before = E) with E in the list: if an op earlier than *)
(* E consumes an output of newOp, then newOp is placed immediately before  *)
(* the earliest such op, the ops before it keep their places, the others   *)
(* move one place down, and newOp is not the op immediately before E.      *)
(***************************************************************************)
EarlierConsumers(ops, e, to_insert) ==
    {c \in 1..(e - 1) : consumes(ops[c], to_insert)}

C2_PlacedBeforeEarliestConsumer ==
    [][\A e \in 1..Len(Ops) : \A to_insert \in NewOps(Len(Ops) + 1) :
          (/\ EarlierConsumers(Ops, e, to_insert) # {}
           /\ CallInsertOp(to_insert, Ops[e].id))
          => LET c == LeastOf(EarlierConsumers(Ops, e, to_insert))
             IN /\ Len(Ops') = Len(Ops) + 1
                /\ Ops'[c] = to_insert
                /\ Ops'[c + 1] = Ops[c]
                /\ \A i \in 1..(c - 1) : Ops'[i] = Ops[i]
                /\ \A i \in c..Len(Ops) : Ops'[i + 1] = Ops[i]
                /\ Ops'[e] # to_insert]_vars

\* The op just inserted stands immediately before a consumer of its output,
\* with a second consumer between that one and the anchor of the call.
C2_Witness ==
    /\ call.name = "insert" /\ call.before # 0
    /\ \E p \in 1..Len(Ops), c \in 1..Len(Ops), e \in 1..Len(Ops) :
          /\ Ops[p].id = Len(Ops)
          /\ Ops[e].id = call.before
          /\ p + 1 < c /\ c < e
          /\ consumes(Ops[p + 1], Ops[p])
          /\ consumes(Ops[c], Ops[p])

(***************************************************************************)
(* C3: after any number of add_use calls of one type and rank on a storage *)
(* that is not yet allocated, the storage's bounds are, per dimension,     *)
(* [the least of the supplied mins, the greatest of the supplied maxes];   *)
(* no call fails.  The closed form does not depend on the order of the     *)
(* calls, and every order of every choice of bounds is a behaviour, so     *)
(* every permutation of the same calls ends with the same bounds.          *)
(***************************************************************************)
UnionOfUses(calls) ==
    [i \in 1..Len(calls[1]) |->
        [min |-> LeastOf({calls[k][i].min : k \in 1..Len(calls)}),
         max |-> GreatestOf({calls[k][i].max : k \in 1..Len(calls)})]]

C3_BoundsAreUnionOfUses ==
    /\ failed = "none"
    /\ uses.n >= 1 =>
          /\ storage[1].buffer.type = uses.type
          /\ storage[1].buffer.data = nullptr
          /\ box(storage[1].buffer) = UnionOfUses(SubSeq(uses.calls, 1, uses.n))
          /\ \A i \in 1..rank(storage[1].buffer) :
                storage[1].buffer.dim[i].extent =
                    UnionOfUses(SubSeq(uses.calls, 1, uses.n))[i].max
                    - UnionOfUses(SubSeq(uses.calls, 1, uses.n))[i].min + 1
    /\ (uses.calls = ExampleUses /\ uses.n = 2) =>
          storage[1].buffer.dim = <<[min |-> -2, extent |-> 12]>>

\* Three uses have been made, none of which alone covers the final bounds.
C3_Witness ==
    /\ failed = "none"
    /\ uses.n = Len(uses.calls) /\ uses.n >= 3
    /\ rank(storage[1].buffer) >= 1
    /\ \A k \in 1..uses.n : box(storage[1].buffer) # uses.calls[k]
    /\ uses.calls[1] # uses.calls[2]

(***************************************************************************)
(* C11: a TensorStorage that is allocated stays as it is: as long as it    *)
(* lives, no call changes its type, its rank or its bounds, and it does    *)
(* not become unallocated again; for storages of every rank.               *)
(***************************************************************************)
C11_AllocatedStorageIsFixed ==
    [][\A s \in DOMAIN storage :
          (/\ storage[s].live /\ storage[s].buffer.data # nullptr
           /\ failed' = "none" /\ storage'[s].live)
          => /\ storage'[s].buffer.type = storage[s].buffer.type
             /\ storage'[s].buffer.dim = storage[s].buffer.dim
             /\ storage'[s].buffer.data # nullptr]_vars

(***************************************************************************)
(* C12: a constant tensor is never bound to a storage, its own or another  *)
(* tensor's, and its buffer stays the one it was constructed with.         *)
(***************************************************************************)
C12_ConstantNeverAliased ==
    \A t \in DOMAIN tensor :
        tensor[t].is_constant =>
            /\ tensor[t].storage = 0
            /\ tensor[t].buffer.data = <<"constant", t>>

(***************************************************************************)
(* C13: as constructed, a tensor built from a populated buffer reports     *)
(* is_allocated() and is_constant(), and a tensor built from type and      *)
(* bounds reports neither; allocate() on a constant returns without        *)
(* failing and changes no tensor and no storage.                           *)
(***************************************************************************)
C13_ConstantIsAllocated ==
    /\ \A t \in DOMAIN tensor :
          \E c \in Configs(t, NumTensors) :
             /\ tensor[t] = Constructed(t, c)
             /\ Tensor_is_allocated(Here, t) = c.constant
             /\ tensor[t].is_constant = c.constant
    /\ [][\A t \in DOMAIN tensor :
             (tensor[t].is_constant /\ CallAllocate(t))
             => /\ failed' = "none"
                /\ tensor' = tensor
                /\ storage' = storage]_vars

\* A constant next to an allocated tensor that is not one: allocate() on
\* the constant can be called, after calls that created and allocated a
\* storage.
C13_Witness ==
    /\ failed = "none"
    /\ \E t \in DOMAIN tensor, u \in DOMAIN tensor :
          /\ tensor[t].is_constant /\ ~Unallocated(t) /\ tensor[t].storage = 0
          /\ ~tensor[u].is_constant /\ ~Unallocated(u)
          /\ rank(tensor[t].buffer) >= 1

(***************************************************************************)
(* C14: allocate() is idempotent.  TensorStorage::allocate() leaves the    *)
(* storage allocated, and a second call changes nothing.  Tensor::allocate *)
(* () that returns leaves the tensor allocated, and a second call changes  *)
(* nothing, also after another tensor of the same storage has allocated in *)
(* between: that call leaves the tensor as it was, and the storage as it   *)
(* was if it was allocated.                                                *)
(***************************************************************************)
C14_AllocateIsIdempotent ==
    failed = "none" =>
        /\ \A s \in DOMAIN storage :
              storage[s].live =>
                 LET h1 == TensorStorage_allocate(Here, s)
                 IN /\ TensorStorage_is_allocated(h1, s)
                    /\ TensorStorage_allocate(h1, s) = h1
        /\ \A t \in DOMAIN tensor :
              LET h1 == Tensor_allocate(Here, t)
                  s  == h1.tensor[t].storage
              IN h1.failed = "none" =>
                    /\ Tensor_is_allocated(h1, t)
                    /\ Tensor_allocate(h1, t) = h1
                    /\ \A u \in DOMAIN tensor :
                          (u # t /\ s # 0 /\ h1.tensor[u].storage = s) =>
                             LET h2 == Tensor_allocate(h1, u)
                             IN h2.failed = "none" =>
                                   /\ Tensor_allocate(h2, t) = h2
                                   /\ h2.tensor[t] = h1.tensor[t]
                                   /\ TensorStorage_is_allocated(h1, s)
                                         => h2.storage[s] = h1.storage[s]

\* Two tensors of one storage have both allocated: the storage has
\* allocated once and both views are crops of that allocation.
C14_Witness ==
    /\ failed = "none"
    /\ \E t \in DOMAIN tensor, u \in DOMAIN tensor :
          /\ t # u /\ Bound(t) /\ tensor[t].storage = tensor[u].storage
          /\ rank(tensor[t].buffer) >= 1
          /\ tensor[t].buffer.dim # tensor[u].buffer.dim
          /\ StorageOf(t).allocs = 1
          /\ IsCropOf(tensor[t].buffer, StorageOf(t).buffer)
          /\ IsCropOf(tensor[u].buffer, StorageOf(t).buffer)

(***************************************************************************)
(* C15: a.set_alias_of(t) between tensors of different type or different   *)
(* rank fails: the add_use it makes on t's storage, which has t's bounds   *)
(* as its first use or the uses of earlier aliases, does not return.       *)
(***************************************************************************)
C15_MismatchedUseFails ==
    [][\A a \in DOMAIN tensor, t \in DOMAIN tensor :
          (/\ ~SameTypeAndRank(a, t)
           /\ Bound(t) => (/\ StorageOf(t).buffer.type = tensor[t].buffer.type
                           /\ rank(StorageOf(t).buffer) = rank(tensor[t].buffer))
           /\ CallSetAliasOf(a, t))
          => failed' # "none"]_vars

(***************************************************************************)
(* C16: a.set_alias_of(t) fails whenever t's storage is already allocated: *)
(* add_use on an allocated storage does not return, whatever its           *)
(* arguments and the storage's rank.                                       *)
(***************************************************************************)
C16_UseAfterAllocateFails ==
    [][\A a \in DOMAIN tensor, t \in DOMAIN tensor :
          (/\ Bound(t) /\ StorageOf(t).buffer.data # nullptr
           /\ CallSetAliasOf(a, t))
          => failed' # "none"]_vars

(***************************************************************************)
(* Vocabulary of the lists: q without its entry at position p, and the     *)
(* positions of x in q.                                                    *)
(***************************************************************************)
Without(q, p) == SubSeq(q, 1, p - 1) \o SubSeq(q, p + 1, Len(q))
PositionsOf(q, x) == {p \in 1..Len(q) : q[p] = x}

(***************************************************************************)
(* C20: insert(op, before) when no op earlier than the anchor consumes an  *)
(* output of the new op.  With the anchor in the list, the new op takes    *)
(* the anchor's position and the anchor follows it immediately, also when  *)
(* the anchor or a later op consumes an output of the new op.  With the    *)
(* anchor absent and no consumer in the list, the new op is the last.  In  *)
(* every insert, the list without the new op is the list before.           *)
(***************************************************************************)
C20_PlacedBeforeAnchorOrAppended ==
    [][\A to_insert \in NewOps(Len(Ops) + 1) :
       \A before \in {0} \cup {Ops[i].id : i \in 1..Len(Ops)} :
          CallInsertOp(to_insert, before) =>
             /\ \A e \in 1..Len(Ops) :
                   (Ops[e].id = before /\ EarlierConsumers(Ops, e, to_insert) = {})
                   => /\ Ops'[e] = to_insert
                      /\ Ops'[e + 1] = Ops[e]
                      /\ Without(Ops', e) = Ops
             /\ (before = 0 /\ EarlierConsumers(Ops, Len(Ops) + 1, to_insert) = {})
                => Ops' = Append(Ops, to_insert)
             /\ Len(Ops') = Len(Ops) + 1
             /\ \E p \in 1..Len(Ops') :
                   Ops'[p] = to_insert /\ Without(Ops', p) = Ops]_vars

\* The op just inserted stands immediately before the anchor of the call,
\* behind an op that does not consume its output, and the anchor and the
\* op after it consume its output.
C20_Witness ==
    /\ call.name = "insert" /\ call.before # 0
    /\ \E p \in 2..(Len(Ops) - 2) :
          /\ Ops[p].id = Len(Ops)
          /\ Ops[p + 1].id = call.before
          /\ consumes(Ops[p + 1], Ops[p])
          /\ consumes(Ops[p + 2], Ops[p])
          /\ \A c \in 1..(p - 1) : ~consumes(Ops[c], Ops[p])

(***************************************************************************)
(* C17: when accept returns, the visitor has been invoked exactly once on  *)
(* every op that is in the list, those included that it inserted during    *)
(* the traversal, and on the ops in the order of the list.                 *)
(***************************************************************************)
Count(q, x) == Cardinality(PositionsOf(q, x))

C17_AcceptVisitsEveryOpOnce ==
    call.name = "accepted" =>
        LET ids == [k \in 1..Len(model[call.m].ops) |-> model[call.m].ops[k].id]
        IN /\ \A k \in 1..Len(ids) : Count(call.visits, ids[k]) = 1
           /\ \A a \in 1..Len(call.visits), b \in 1..Len(call.visits) :
                 a < b => \E i \in 1..Len(ids), j \in 1..Len(ids) :
                             i < j /\ ids[i] = call.visits[a] /\ ids[j] = call.visits[b]

(***************************************************************************)
(* C18: insert(tensor, after) returns with a list one longer.  With the    *)
(* anchor in the list, the new tensor follows the anchor immediately; with *)
(* the anchor not in the list, or null, the new tensor is the last.  The   *)
(* list without the new tensor is the list before.                         *)
(***************************************************************************)
C18_TensorPlacedAfterAnchor ==
    [][\A m \in DOMAIN model :
       \A to_insert \in DOMAIN tensor, after \in {0} \cup DOMAIN tensor :
          CallInsertTensorIn(m, to_insert, after) =>
             LET old == model[m].tensors
                 new == model'[m].tensors
             IN /\ failed' = "none"
                /\ Len(new) = Len(old) + 1
                /\ \A p \in 1..Len(old) :
                      (old[p] = after /\ \A k \in 1..(p - 1) : old[k] # after)
                      => /\ new[p] = after
                         /\ new[p + 1] = to_insert
                         /\ Without(new, p + 1) = old
                /\ PositionsOf(old, after) = {}
                      => /\ new[Len(new)] = to_insert
                         /\ Without(new, Len(new)) = old]_vars

\* The tensor just inserted stands between its anchor and the tensor that
\* followed the anchor.
C18_Witness ==
    /\ call.name = "insert_tensor" /\ call.after # 0
    /\ \E p \in 1..(Len(model[call.m].tensors) - 2) :
          /\ model[call.m].tensors[p] = call.after
          /\ model[call.m].tensors[p + 1] = call.to_insert

(***************************************************************************)
(* C19: the lists of a model only grow.  In every step of insert(tensor),  *)
(* insert(op), accept and clone, every model there was is still there and  *)
(* every entry of its tensor list and of its op list is in the list as     *)
(* many times as before (an op once).  An insert adds one entry to its     *)
(* list, the element inserted, and leaves the other list and the other     *)
(* models as they were; a clone leaves every model as it was.              *)
(***************************************************************************)
Entries(q) == {q[i] : i \in 1..Len(q)}

Kept(old, new) == \A x \in Entries(old) : Count(new, x) = Count(old, x)

C19_ListsOnlyGrow ==
    [][/\ Len(model') >= Len(model)
       /\ \A m \in DOMAIN model :
             /\ Kept(model[m].tensors, model'[m].tensors)
             /\ Kept(model[m].ops, model'[m].ops)
             /\ \A x \in Entries(model'[m].ops) : Count(model'[m].ops, x) = 1
             /\ call'.name = "clone" => model'[m] = model[m]
             /\ (call'.name \in {"insert_tensor", "insert_op"} /\ call'.m # m)
                   => model'[m] = model[m]
             /\ (call'.name = "insert_tensor" /\ call'.m = m)
                   => /\ model'[m].ops = model[m].ops
                      /\ Len(model'[m].tensors) = Len(model[m].tensors) + 1
                      /\ Count(model'[m].tensors, call'.to_insert)
                            = Count(model[m].tensors, call'.to_insert) + 1
             /\ (call'.name = "insert_op" /\ call'.m = m)
                   => /\ model'[m].tensors = model[m].tensors
                      /\ Len(model'[m].ops) = Len(model[m].ops) + 1
                      /\ \E x \in Entries(model'[m].ops) : x \notin Entries(model[m].ops)]_vars

\* A clone of a model that has had tensors and ops inserted and has been
\* traversed, and has itself had a tensor and an op inserted since.
C19_Witness ==
    /\ Len(model) = 2
    /\ call.name = "accepted" /\ call.m = 2 /\ Len(call.visits) >= 2
    /\ Len(model[1].tensors) >= 2 /\ Len(model[1].ops) >= 1
    /\ Len(model[2].tensors) > Len(model[1].tensors)
    /\ Len(model[2].ops) > Len(model[1].ops)

(***************************************************************************)
(* C21: in every reachable state, a tensor that is allocated and is not a  *)
(* constant is bound to a storage that is allocated, and its view is a     *)
(* crop of that storage's buffer.                                          *)
(***************************************************************************)
C21_AllocatedViewCropsItsStorage ==
    \A t \in DOMAIN tensor :
        (~tensor[t].is_constant /\ ~Unallocated(t))
        => /\ Bound(t)
           /\ StorageOf(t).buffer.data # nullptr
           /\ IsCropOf(tensor[t].buffer, StorageOf(t).buffer)

(***************************************************************************)
(* C22: storage() on an unallocated tensor with no storage bound returns   *)
(* with the tensor bound to a new storage, unallocated, of exactly the     *)
(* tensor's type and bounds, to which no other tensor is bound.  storage() *)
(* on a tensor with a storage bound changes nothing: not the binding, not  *)
(* the storage.  A step that is not a set_alias_of on the tensor leaves    *)
(* its binding as it is.                                                   *)
(***************************************************************************)
C22_StorageIsPrivateAndSeeded ==
    [][\A t \in DOMAIN tensor :
          /\ (Unallocated(t) /\ ~Bound(t) /\ CallStorage(t))
             => /\ failed' = "none"
                /\ tensor'[t].storage # 0
                /\ storage'[tensor'[t].storage].live
                /\ storage'[tensor'[t].storage].buffer.type = tensor[t].buffer.type
                /\ storage'[tensor'[t].storage].buffer.dim = tensor[t].buffer.dim
                /\ storage'[tensor'[t].storage].buffer.data = nullptr
                /\ \A u \in DOMAIN tensor \ {t} :
                      tensor'[u].storage # tensor'[t].storage
                /\ \A u \in DOMAIN tensor \ {t} : tensor'[u] = tensor[u]
                /\ tensor'[t].buffer = tensor[t].buffer
          /\ (Bound(t) /\ CallStorage(t))
             => /\ failed' = "none"
                /\ tensor' = tensor
                /\ storage' = storage
          /\ (Bound(t) /\ failed' = "none"
              /\ ~(\E u \in DOMAIN tensor : CallSetAliasOf(t, u)))
             => tensor'[t].storage = tensor[t].storage]_vars

\* A tensor of rank >= 1 is bound to the storage it created, which has the
\* tensor's bounds and no other tensor, next to two tensors that share
\* another storage.
C22_Witness ==
    /\ failed = "none"
    /\ \E t \in DOMAIN tensor, u \in DOMAIN tensor, v \in DOMAIN tensor :
          /\ tensor[t].storage = t /\ Unallocated(t)
          /\ rank(tensor[t].buffer) >= 1
          /\ tensor[t].buffer.dim[1].min > 0
          /\ StorageOf(t).buffer = tensor[t].buffer
          /\ u # t /\ v # t /\ u # v
          /\ Bound(u) /\ tensor[u].storage = tensor[v].storage

(***************************************************************************)
(* C23: allocate() changes only the allocation state.  A storage that a    *)
(* step allocates has, afterwards, the type, the rank and the min and      *)
(* extent of every dimension that it had before the step; and a            *)
(* Tensor::allocate() that returns leaves the tensor's type and bounds as  *)
(* they were.                                                              *)
(***************************************************************************)
C23_AllocateKeepsTypeAndBounds ==
    [][\A t \in DOMAIN tensor :
          (CallAllocate(t) /\ failed' = "none")
          => /\ tensor'[t].buffer.type = tensor[t].buffer.type
             /\ tensor'[t].buffer.dim = tensor[t].buffer.dim
             /\ \A s \in DOMAIN storage :
                   (/\ storage[s].live /\ storage'[s].live
                    /\ storage[s].buffer.data = nullptr
                    /\ storage'[s].buffer.data # nullptr)
                   => /\ storage'[s].buffer.type = storage[s].buffer.type
                      /\ storage'[s].buffer.dim = storage[s].buffer.dim]_vars

(***************************************************************************)
(* C24: immediately after an insert(op, before), the inserted op stands    *)
(* earlier in the list than every other op that has one of its outputs     *)
(* among its inputs, whatever the anchor.  (Every step of the              *)
(* specification is an insert; the inserted op is the one with the new     *)
(* id.)                                                                    *)
(***************************************************************************)
Reads(op, producer) ==
    {op.in[k] : k \in 1..Len(op.in)} \cap {producer.out[j] : j \in 1..Len(producer.out)} # {}

C24_InsertedBeforeItsConsumers ==
    [][/\ Len(Ops') = Len(Ops) + 1
       /\ \E p \in 1..Len(Ops') :
             /\ Ops'[p].id = Len(Ops) + 1
             /\ \A c \in 1..Len(Ops') :
                   (c # p /\ Reads(Ops'[c], Ops'[p])) => p < c]_vars

\* The op just inserted, with no anchor in the list, stands behind an op
\* and before two ops that read its output through their second input.
C24_Witness ==
    /\ call.name = "insert" /\ call.before = 0
    /\ \E p \in 2..(Len(Ops) - 2) :
          /\ Ops[p].id = Len(Ops)
          /\ \A c \in (p + 1)..(p + 2) :
                /\ Len(Ops[c].in) = 2
                /\ Ops[c].in[2] \in {Ops[p].out[j] : j \in 1..Len(Ops[p].out)}
                /\ Ops[c].in[1] \notin {Ops[p].out[j] : j \in 1..Len(Ops[p].out)}

(***************************************************************************)
(* C25: a clone leaves what there was as it was.  Every model that existed *)
(* has the same tensor list and the same op list, in the same order; and   *)
(* every tensor that existed has the same buffer (so the same allocation   *)
(* state) and the same storage binding, and its storage the same bounds    *)
(* and allocation.                                                         *)
(***************************************************************************)
C25_CloneLeavesSourceUnchanged ==
    [][\A m \in DOMAIN model :
          CallClone(m) =>
             /\ failed' = "none"
             /\ \A n \in DOMAIN model :
                   /\ model'[n].tensors = model[n].tensors
                   /\ model'[n].ops = model[n].ops
             /\ \A t \in DOMAIN tensor :
                   /\ tensor'[t] = tensor[t]
                   /\ Bound(t) => storage'[tensor[t].storage] = StorageOf(t)]_vars

\* A clone of a model with an allocated tensor and with an unallocated
\* tensor that has a storage bound, shared with another tensor: the second
\* was copied, and is still bound as it was.
C25_Witness ==
    /\ call.name = "clone" /\ call.calls = 0 /\ Len(model) = 2
    /\ \E i \in 1..Len(model[1].tensors), j \in 1..Len(model[1].tensors) :
          LET a == model[1].tensors[i]
              x == model[1].tensors[j]
          IN /\ ~Unallocated(a) /\ model[2].tensors[i] = a
             /\ Unallocated(x) /\ model[2].tensors[j] # x
             /\ Bound(x) /\ tensor[x].storage # x
             /\ tensor[model[2].tensors[j]].storage = 0

(***************************************************************************)
(* C26: accept terminates: the visitor inserts finitely many ops (the list *)
(* has at most MaxGraphOps), and every accept that is entered returns.     *)
(* Every iteration visits the op at the cursor and advances the cursor by  *)
(* one; and an accept during which the list was not modified returns after *)
(* exactly ops.size() visits, of the ops of positions 1, 2, ... in that    *)
(* order.                                                                  *)
(***************************************************************************)
C26_AcceptTerminates ==
    /\ (call.name = "accept") ~> (call.name = "accepted")
    /\ [][/\ (call.name = "accept" /\ call'.name = "accept")
             => /\ call'.i = call.i + 1
                /\ call'.visits = Append(call.visits, model[call.m].ops[call.i + 1].id)
          /\ (/\ call.name = "accept" /\ call'.name = "accepted"
              /\ Len(model[call.m].ops) = call.size)
             => /\ Len(call'.visits) = call.size
                /\ call'.visits = [k \in 1..call.size |-> model[call.m].ops[k].id]]_vars

\* An accept over two ops, during which no op was inserted, has returned.
C26_Witness ==
    /\ call.name = "accepted"
    /\ call.size = Len(model[call.m].ops)
    /\ call.size >= 2
    /\ Len(call.visits) = 2

====
